---- MODULE Spec2Model ----
(***************************************************************************)
(* Model of src/app.py: the yield-to-maturity solver (calculate_ytm and    *)
(* its inner bond_price), the row-wise application of the solver to the    *)
(* batch of quotes, and the batch metrics (max / min / spread).            *)
(*                                                                         *)
(* Python floats are IEEE-754 binary64 numbers.  They are modelled bit for *)
(* bit: a float is a record [s, m, e] standing for s * m * 2^e, where s is *)
(* the sign (-1, 0, 1) and m is the 53-bit significand.  Because the model *)
(* checker's integers are 32 bits wide, the significand is kept as a       *)
(* little-endian sequence of 14-bit limbs, and every float operation is    *)
(* computed exactly on the limbs and then rounded to nearest, ties to      *)
(* even, as the hardware does.  The float ** int power is modelled as the  *)
(* correctly rounded power.                                                *)
(***************************************************************************)
EXTENDS Integers, Sequences, FiniteSets, TLC

\* Significand width of a Python float (IEEE-754 binary64).
Precision == 53

\* Radix of one limb of a significand.
Base == 2^14

Max(a, b) == IF a >= b THEN a ELSE b

----------------------------------------------------------------------------
\* Natural numbers of any size: little-endian limb sequences without leading
\* zero limbs; <<>> is zero.  The operations are functions, whose arguments
\* are values: Python, too, evaluates the operands before the operation.

Big == Seq(Nat)

Limb(a, i) == IF i >= 1 /\ i <= Len(a) THEN a[i] ELSE 0

\* a without its leading zero limbs
Trim[a \in Big] ==
  LET nz == {i \in 1..Len(a) : a[i] # 0}
  IN  IF nz = {} THEN <<>>
      ELSE SubSeq(a, 1, CHOOSE i \in nz : \A j \in nz : j <= i)

\* One pass of carrying: a column keeps what it has below Base and takes
\* what the column under it has above Base.
Pass[c \in Big] ==
  [i \in 1..(Len(c) + 1) |-> (Limb(c, i) % Base) + (Limb(c, i - 1) \div Base)] \o <<>>

\* The number with columns c, none above Base: a column of Base sends a carry
\* up, and columns of Base - 1 hand it on.
Ripple[c \in Big] ==
  LET cin(i) == \E j \in 1..(i - 1) :
                  /\ c[j] = Base
                  /\ \A k \in (j + 1)..(i - 1) : c[k] = Base - 1
  IN  Trim[[i \in 1..(Len(c) + 1) |->
              (Limb(c, i) + (IF cin(i) THEN 1 ELSE 0)) % Base]]

\* The number with columns cols, each below 2^31: after three passes no
\* column is above Base.
Carry[cols \in Big] == Ripple[Pass[Pass[Pass[cols]]]]

BigFromInt(n) == Carry[<<n>>]

RECURSIVE BigToInt(_)
BigToInt(a) == IF a = <<>> THEN 0 ELSE a[1] + Base * BigToInt(Tail(a))

BigAdd[a \in Big, b \in Big] ==
  Carry[[i \in 1..Max(Len(a), Len(b)) |-> Limb(a, i) + Limb(b, i)]]

\* a - b for a >= b: limb i borrows when a lower limb of a is the smaller one
\* and the limbs between are equal
BigSub[a \in Big, b \in Big] ==
  LET Borrow(i) == \E j \in 1..(i - 1) :
                     /\ a[j] < Limb(b, j)
                     /\ \A k \in (j + 1)..(i - 1) : a[k] = Limb(b, k)
  IN  Trim[[i \in 1..Len(a) |->
              (a[i] - Limb(b, i) - (IF Borrow(i) THEN 1 ELSE 0) + Base) % Base]]

\* the sign of a - b
BigCmp[a \in Big, b \in Big] ==
  IF Len(a) > Len(b) THEN 1
  ELSE IF Len(a) < Len(b) THEN -1
  ELSE LET D == {i \in 1..Len(a) : a[i] # b[i]}
       IN  IF D = {} THEN 0
           ELSE LET i == CHOOSE i \in D : \A j \in D : j <= i
                IN  IF a[i] > b[i] THEN 1 ELSE -1

\* column k of a * b, for b of at most four limbs: at most four products
ColSum(a, b, k) ==
  LET i0   == Max(1, k + 1 - Len(b))
      T(i) == IF i <= Len(a) /\ i <= k THEN a[i] * Limb(b, k + 1 - i) ELSE 0
  IN  T(i0) + T(i0 + 1) + T(i0 + 2) + T(i0 + 3)

\* a * b for b of at most four limbs, so a column fits 31 bits
BigMul[a \in Big, b \in Big] ==
  IF a = <<>> \/ b = <<>> THEN <<>>
  ELSE Carry[[k \in 1..(Len(a) + Len(b) - 1) |-> ColSum(a, b, k)]]

BigPow[a \in Big, t \in Nat] == IF t = 0 THEN <<1>> ELSE BigMul[BigPow[a, t - 1], a]

\* the number of bits of a limb
SmallBitLen(n) == CHOOSE k \in 0..14 : n < 2^k /\ (k = 0 \/ n >= 2^(k - 1))

BitLen(a) == IF a = <<>> THEN 0 ELSE 14 * (Len(a) - 1) + SmallBitLen(a[Len(a)])

\* a * 2^k
BigShl[a \in Big, k \in Nat] ==
  IF a = <<>> THEN a
  ELSE [i \in 1..(k \div 14) |-> 0]
       \o Carry[[i \in 1..Len(a) |-> a[i] * 2^(k % 14)]]

\* floor(a / 2^k)
BigShr[a \in Big, k \in Nat] ==
  LET ls == k \div 14
      bs == k % 14
  IN  IF ls >= Len(a) THEN <<>>
      ELSE Trim[[i \in 1..(Len(a) - ls) |->
                   (a[i + ls] \div 2^bs) + (Limb(a, i + ls + 1) % 2^bs) * 2^(14 - bs)]]

\* bit k of a (bit 0 is the lowest)
BigBit(a, k) == (Limb(a, (k \div 14) + 1) \div 2^(k % 14)) % 2

\* whether a has a 1 among its k lowest bits
BigLowBits(a, k) ==
  \/ \E i \in 1..(k \div 14) : Limb(a, i) # 0
  \/ Limb(a, (k \div 14) + 1) % 2^(k % 14) # 0

\* a * q for a limb q
MulSmall[a \in Big, q \in Nat] == Carry[[i \in 1..Len(a) |-> a[i] * q]]

\* the largest q <= guess with d * q <= R
FixDigit[R \in Big, d \in Big, guess \in Nat] ==
  IF BigCmp[MulSmall[d, guess], R] > 0 THEN FixDigit[R, d, guess - 1] ELSE guess

\* the remainder of R left by the limb q of the quotient
DivRest[R \in Big, d \in Big, q \in Nat] == <<q, BigSub[R, MulSmall[d, q]]>>

\* One step of long division by d, a number of four limbs whose top limb is
\* at least Base / 2: <<floor(r * Base / d), remainder>> for r < d.  The
\* guess from the leading limbs is at most two too large.
DivDigit[r \in Big, d \in Big] ==
  LET R     == IF r = <<>> THEN r ELSE <<0>> \o r
      top   == Limb(R, 5) * Base + Limb(R, 4)
      guess == IF top \div d[4] >= Base THEN Base - 1 ELSE top \div d[4]
  IN  DivRest[R, d, FixDigit[R, d, guess]]

\* k more steps of long division after the step s = <<limb, remainder>>, q
\* the limbs of the quotient before it: <<quotient, remainder>>
LongDiv[s \in Nat \X Big, d \in Big, k \in Nat, q \in Big] ==
  IF k = 0 THEN <<Trim[<<s[1]>> \o q], s[2]>>
  ELSE LongDiv[DivDigit[s[2], d], d, k - 1, <<s[1]>> \o q]

\* <<floor(a * 2^56 / d), remainder>> for 53-bit a and d, both scaled by 8
DivScaled[a8 \in Big, d8 \in Big] ==
  IF BigCmp[a8, d8] >= 0 THEN LongDiv[<<1, BigSub[a8, d8]>>, d8, 4, <<>>]
  ELSE LongDiv[<<0, a8>>, d8, 4, <<>>]

BigDiv56(a, d) == DivScaled[MulSmall[a, 8], MulSmall[d, 8]]

----------------------------------------------------------------------------
\* Floats: [s |-> sign, m |-> significand (53 bits, limbs), e |-> exponent].

Float == [s : {-1, 0, 1}, m : Big, e : Int]

Zero == [s |-> 0, m |-> <<>>, e |-> 0]

\* The float nearest to s * M * 2^e (ties to even); sticky says that the exact
\* value lies strictly above M * 2^e and below (M + 1) * 2^e.
Round[s \in {-1, 0, 1}, M \in Big, e \in Int, sticky \in BOOLEAN] ==
  IF M = <<>> THEN Zero
  ELSE LET L == BitLen(M)
       IN  IF L <= Precision
           THEN [s |-> s, m |-> BigShl[M, Precision - L], e |-> e - (Precision - L)]
           ELSE LET sh == L - Precision
                    q  == BigShr[M, sh]
                    up == /\ BigBit(M, sh - 1) = 1
                          /\ \/ BigLowBits(M, sh - 1)
                             \/ sticky
                             \/ BigBit(q, 0) = 1
                    q1 == IF up THEN BigAdd[q, <<1>>] ELSE q
                IN  IF BitLen(q1) > Precision
                    THEN [s |-> s, m |-> BigShr[q1, 1], e |-> e + sh + 1]
                    ELSE [s |-> s, m |-> q1, e |-> e + sh]

\* int -> float
FromInt(n) ==
  IF n = 0 THEN Zero
  ELSE Round[IF n > 0 THEN 1 ELSE -1, BigFromInt(IF n > 0 THEN n ELSE -n), 0, FALSE]

\* the sign of a - b
FCmp[a \in Float, b \in Float] ==
  IF a.s # b.s THEN (IF a.s > b.s THEN 1 ELSE -1)
  ELSE IF a.s = 0 THEN 0
  ELSE IF a.e # b.e THEN (IF a.e > b.e THEN a.s ELSE -a.s)
  ELSE a.s * BigCmp[a.m, b.m]

FGt(a, b) == FCmp[a, b] > 0
FLe(a, b) == FCmp[a, b] <= 0
FLt(a, b) == FCmp[a, b] < 0

\* a + b
FAdd[a \in Float, b \in Float] ==
  IF a.s = 0 THEN b
  ELSE IF b.s = 0 THEN a
  ELSE LET hi == IF a.e >= b.e THEN a ELSE b
           lo == IF a.e >= b.e THEN b ELSE a
           d  == hi.e - lo.e
       IN  IF d > Precision + 2 THEN hi
           ELSE LET A == BigShl[hi.m, d]
                IN  IF hi.s = lo.s
                    THEN Round[hi.s, BigAdd[A, lo.m], lo.e, FALSE]
                    ELSE IF BigCmp[A, lo.m] >= 0
                    THEN Round[hi.s, BigSub[A, lo.m], lo.e, FALSE]
                    ELSE Round[lo.s, BigSub[lo.m, A], lo.e, FALSE]

\* a * b
FMul[a \in Float, b \in Float] == Round[a.s * b.s, BigMul[a.m, b.m], a.e + b.e, FALSE]

\* the float of the quotient qr[1] and the remainder qr[2]
DivRound[s \in {-1, 0, 1}, qr \in Big \X Big, e \in Int] == Round[s, qr[1], e, qr[2] # <<>>]

\* a / b, b # 0
FDiv[a \in Float, b \in Float] ==
  IF a.s = 0 THEN Zero
  ELSE DivRound[a.s * b.s, BigDiv56(a.m, b.m), a.e - b.e - 56]

\* a ** t for an int t >= 1
FPow[a \in Float, t \in Nat] ==
  Round[IF t % 2 = 0 THEN a.s * a.s ELSE a.s, BigPow[a.m, t], a.e * t, FALSE]

\* round(a): the nearest int, ties to even
RoundToInt(a) ==
  IF a.s = 0 THEN 0
  ELSE IF a.e >= 0 THEN a.s * BigToInt(BigShl[a.m, a.e])
  ELSE LET sh == -a.e
           q  == BigToInt(BigShr[a.m, sh])
           up == /\ BigBit(a.m, sh - 1) = 1
                 /\ \/ BigLowBits(a.m, sh - 1)
                    \/ q % 2 = 1
       IN  a.s * (IF up THEN q + 1 ELSE q)

FNeg(a) == [s |-> -a.s, m |-> a.m, e |-> a.e]

\* a - b
FSub(a, b) == FAdd[a, FNeg(b)]

One == FromInt(1)
Two == FromInt(2)

\* np.nan, and a float, as a value of the YTM_% column
NaN == [nan |-> TRUE, v |-> Zero]
Num(v) == [nan |-> FALSE, v |-> v]

----------------------------------------------------------------------------
\* calculate_ytm

\* face_value=100
face_value == FromInt(100)

\* range(100)
LoopCount == 100

\* a bracket that ends at 0.02
HIGH0_Narrow == FDiv[FromInt(2), FromInt(100)]

\* low, high = 0.0001, 0.20
LOW0 == FDiv[FromInt(1), FromInt(10000)]
HIGH0 == FDiv[FromInt(2), FromInt(10)]

\* periods = int(round(years * 2))
Periods(years) == RoundToInt(FMul[years, Two])

\* the coupon of a whole year
CouponAnnual(coupon_rate) == FMul[coupon_rate, face_value]

\* coupon = (coupon_rate / 2) * face_value
Coupon(coupon_rate) == FMul[FDiv[coupon_rate, Two], face_value]

\* sum(coupon / (1 + y / 2) ** t for t in range(1, n + 1)), added left to right
CouponSum[coupon \in Float, base \in Float, n \in Nat] ==
  IF n = 0 THEN Zero
  ELSE FAdd[CouponSum[coupon, base, n - 1], FDiv[coupon, FPow[base, n]]]

\* the cash flows compounded instead of discounted
bond_price_compounded(y, coupon, n) ==
  FAdd[FMul[coupon, FPow[FAdd[One, FDiv[y, Two]], n]],
       FMul[face_value, FPow[FAdd[One, FDiv[y, Two]], n]]]

\* the price with base = 1 + y / 2
Discounted[coupon \in Float, base \in Float, n \in Nat] ==
  FAdd[CouponSum[coupon, base, n], FDiv[face_value, FPow[base, n]]]

bond_price(y, coupon, n) == Discounted[coupon, FAdd[One, FDiv[y, Two]], n]

\* if price <= 0 or periods <= 0
Rejected(q) == FLe(q.price, Zero) \/ Periods(q.years) <= 0

----------------------------------------------------------------------------
\* The rows that reach the solver.  LTP is a decimal of the uploaded CSV with
\* two places, COUPON_RATE the symbol's digits / 100, YEARS_TO_MATURITY the
\* days to redemption / 365; the solver is called with COUPON_RATE / 100.

\* int(raw) / 100, and r["COUPON_RATE"] / 100 at the call
CouponRate(raw) == FDiv[FDiv[FromInt(raw), FromInt(100)], FromInt(100)]

\* (df["REDEMPTION DATE"] - today).dt.days / 365
Years(days) == FDiv[FromInt(days), FromInt(365)]

Quote(ltp, raw, days) ==
  [price       |-> FDiv[FromInt(ltp), FromInt(100)],
   coupon_rate |-> CouponRate(raw),
   years       |-> Years(days)]

\* The largest number of coupon periods of a row, and of rows of a batch.
MaxPeriods == 2
MaxRows == 2

\* the least number of days that round(days / 365 * 2) takes to k periods
DaysOf(k) == (365 * k + 1) \div 2

\* LTP in hundredths, the digits of the symbol, days to redemption (80 days
\* pass the filter YEARS_TO_MATURITY > 0 and round to no period at all)
LtpSet == {-100, 0, 5000, 9950, 20000}
RawSet == {600, 712}
DaysSet == {80} \cup {DaysOf(k) : k \in 1..MaxPeriods}

CsvQuotes == {Quote(l, r, d) : l \in LtpSet, r \in RawSet, d \in DaysSet}

\* Quotes whose price is the model price of a known yield y0.
Y0Set == {LOW0, FDiv[FromInt(5), FromInt(100)], CouponRate(712), HIGH0}

PricedQuotes ==
  {[price       |-> bond_price(y0, Coupon(CouponRate(r)), k),
    coupon_rate |-> CouponRate(r),
    years       |-> Years(DaysOf(k))] : y0 \in Y0Set, r \in RawSet, k \in 1..MaxPeriods}

\* The rows of the batches of several rows: a bond quoted inside the bracket,
\* a distressed one, one without a price, one about to mature.
BatchQuotes ==
  {Quote(9950, 712, 183), Quote(5000, 712, 183), Quote(0, 712, 183), Quote(9950, 712, 80)}

RECURSIVE SeqsUpTo(_, _)
SeqsUpTo(S, n) ==
  IF n = 0 THEN {<<>>}
  ELSE LET shorter == SeqsUpTo(S, n - 1)
       IN  shorter \cup {Append(b, q) : b \in shorter, q \in S}

\* the float after a positive float a
NextUp(a) ==
  LET m1 == BigAdd[a.m, <<1>>]
  IN  IF BitLen(m1) > Precision
      THEN [s |-> a.s, m |-> BigShr[m1, 1], e |-> a.e + 1]
      ELSE [s |-> a.s, m |-> m1, e |-> a.e]

\* Trial yields for bond_price alone: in hundredths of a percent, the floats
\* right after them, and the coupon rates themselves.
YBase == {FDiv[FromInt(k), FromInt(10000)] : k \in {1, 500, 2000, 50000}}
YGrid ==
  YBase \cup {NextUp(y) : y \in YBase}
        \cup {CouponRate(r) : r \in RawSet \cup {0}}
        \cup {FDiv[FromInt(k), FromInt(10)] : k \in {-15, -5}}

VARIABLES
  batch,    \* df: the rows the solver is applied to, in order
  row,      \* the row df.apply is at
  pc,       \* "apply", "loop", "done"; "price" while bond_price alone is run
  price, periods, coupon, low, high, mid, iter,   \* locals of calculate_ytm
  ytm,      \* df["YTM_%"] as far as it is computed
  summary,  \* what the METRICS section shows
  probe     \* bond_price alone: a schedule, two trial yields, their prices

vars == <<batch, row, pc, price, periods, coupon, low, high, mid, iter, ytm, summary, probe>>

NoSummary == [state |-> "none", max |-> Zero, min |-> Zero, spread |-> Zero]

NoProbe == [coupon_rate |-> Zero, n |-> 0, y1 |-> Zero, y2 |-> Zero,
            p1 |-> Zero, p2 |-> Zero, done |-> FALSE]

InitLocals ==
  /\ row = 1
  /\ price = Zero /\ periods = 0 /\ coupon = Zero
  /\ low = Zero /\ high = Zero /\ mid = Zero /\ iter = 0
  /\ ytm = <<>>
  /\ summary = NoSummary

\* one row
InitSolve ==
  /\ \E q \in CsvQuotes \cup PricedQuotes : batch = <<q>>
  /\ pc = "apply"
  /\ probe = NoProbe
  /\ InitLocals

\* up to MaxRows rows, the empty batch included
InitBatch ==
  /\ batch \in SeqsUpTo(BatchQuotes, MaxRows)
  /\ pc = "apply"
  /\ probe = NoProbe
  /\ InitLocals

\* a schedule and two trial yields y1 < y2
InitPrice ==
  /\ batch = <<>>
  /\ pc = "price"
  /\ \E r \in RawSet \cup {0}, k \in 1..MaxPeriods, y1 \in YGrid, y2 \in YGrid :
       /\ FLt(y1, y2)
       /\ probe = [coupon_rate |-> CouponRate(r), n |-> k, y1 |-> y1, y2 |-> y2,
                   p1 |-> Zero, p2 |-> Zero, done |-> FALSE]
  /\ InitLocals

\* a failed check that ends the whole batch
ReturnNaNAborts ==
  /\ pc = "apply" /\ row <= Len(batch)
  /\ Rejected(batch[row])
  /\ ytm' = Append(ytm, NaN)
  /\ row' = Len(batch) + 1
  /\ iter' = 0
  /\ UNCHANGED <<batch, pc, price, periods, coupon, low, high, mid, summary, probe>>

\* calculate_ytm returns np.nan before the loop
ReturnNaN ==
  /\ pc = "apply" /\ row <= Len(batch)
  /\ Rejected(batch[row])
  /\ ytm' = Append(ytm, NaN)
  /\ row' = row + 1
  /\ iter' = 0
  /\ UNCHANGED <<batch, pc, price, periods, coupon, low, high, mid, summary, probe>>

\* calculate_ytm passes the check and reaches the loop
EnterLoop ==
  /\ pc = "apply" /\ row <= Len(batch)
  /\ ~Rejected(batch[row])
  /\ price' = batch[row].price
  /\ periods' = Periods(batch[row].years)
  /\ coupon' = Coupon(batch[row].coupon_rate)
  /\ low' = LOW0 /\ high' = HIGH0
  /\ iter' = 0
  /\ pc' = "loop"
  /\ UNCHANGED <<batch, row, mid, ytm, summary, probe>>

\* the comparison the other way round
LoopStepFlipped ==
  /\ pc = "loop" /\ iter < LoopCount
  /\ LET m == FDiv[FAdd[low, high], Two]
     IN  /\ mid' = m
         /\ IF FLt(bond_price(m, coupon, periods), price)
            THEN low' = m /\ high' = high
            ELSE high' = m /\ low' = low
  /\ iter' = iter + 1
  /\ UNCHANGED <<batch, row, pc, price, periods, coupon, ytm, summary, probe>>

\* mid = low + high / 2
LoopStepNoParens ==
  /\ pc = "loop" /\ iter < LoopCount
  /\ LET m == FAdd[low, FDiv[high, Two]]
     IN  /\ mid' = m
         /\ IF FGt(bond_price(m, coupon, periods), price)
            THEN low' = m /\ high' = high
            ELSE high' = m /\ low' = low
  /\ iter' = iter + 1
  /\ UNCHANGED <<batch, row, pc, price, periods, coupon, ytm, summary, probe>>

\* one iteration of for _ in range(100)
LoopStep ==
  /\ pc = "loop" /\ iter < LoopCount
  /\ LET m == FDiv[FAdd[low, high], Two]
     IN  /\ mid' = m
         /\ IF FGt(bond_price(m, coupon, periods), price)
            THEN low' = m /\ high' = high
            ELSE high' = m /\ low' = low
  /\ iter' = iter + 1
  /\ UNCHANGED <<batch, row, pc, price, periods, coupon, ytm, summary, probe>>

\* return low * 100
ReturnLow ==
  /\ pc = "loop" /\ iter = LoopCount
  /\ ytm' = Append(ytm, Num(FMul[low, FromInt(100)]))
  /\ row' = row + 1
  /\ pc' = "apply"
  /\ UNCHANGED <<batch, price, periods, coupon, low, high, mid, iter, summary, probe>>

\* return mid * 100
Return ==
  /\ pc = "loop" /\ iter = LoopCount
  /\ ytm' = Append(ytm, Num(FMul[mid, FromInt(100)]))
  /\ row' = row + 1
  /\ pc' = "apply"
  /\ UNCHANGED <<batch, price, periods, coupon, low, high, mid, iter, summary, probe>>

\* sort_values("YTM_%", ascending=False): NaN rows last
Before(a, b) == ~a.nan /\ (b.nan \/ FGt(a.v, b.v))

RECURSIVE Insert(_, _)
Insert(r, s) ==
  IF s = <<>> THEN <<r>>
  ELSE IF Before(r, s[1]) THEN <<r>> \o s
  ELSE <<s[1]>> \o Insert(r, Tail(s))

RECURSIVE final_df(_)
final_df(col) == IF col = <<>> THEN col ELSE Insert(col[Len(col)], final_df(SubSeq(col, 1, Len(col) - 1)))

\* idxmax / idxmin skip NaN; with nothing but NaN, or nothing, they raise
HasValue(col) == \E i \in 1..Len(col) : ~col[i].nan

idxmax(col) ==
  CHOOSE i \in 1..Len(col) :
    /\ ~col[i].nan
    /\ \A j \in 1..Len(col) : col[j].nan \/ FLe(col[j].v, col[i].v)
    /\ \A j \in 1..(i - 1) : col[j].nan \/ FLt(col[j].v, col[i].v)

idxmin(col) ==
  CHOOSE i \in 1..Len(col) :
    /\ ~col[i].nan
    /\ \A j \in 1..Len(col) : col[j].nan \/ FLe(col[i].v, col[j].v)
    /\ \A j \in 1..(i - 1) : col[j].nan \/ FLt(col[i].v, col[j].v)

\* METRICS: max_row, min_row, spread
Metrics ==
  /\ pc = "apply" /\ row > Len(batch)
  /\ HasValue(ytm)
  /\ LET f       == final_df(ytm)
         max_row == f[idxmax(f)]
         min_row == f[idxmin(f)]
     IN  summary' = [state |-> "ok", max |-> max_row.v, min |-> min_row.v,
                     spread |-> FSub(max_row.v, min_row.v)]
  /\ pc' = "done"
  /\ UNCHANGED <<batch, row, price, periods, coupon, low, high, mid, iter, ytm, probe>>

\* except Exception: st.error("App crashed during execution"); the script
\* goes on to its last line
MetricsRaises ==
  /\ pc = "apply" /\ row > Len(batch)
  /\ ~HasValue(ytm)
  /\ summary' = [NoSummary EXCEPT !.state = "error"]
  /\ pc' = "done"
  /\ UNCHANGED <<batch, row, price, periods, coupon, low, high, mid, iter, ytm, probe>>

\* bond_price at the two trial yields
Price ==
  /\ pc = "price" /\ ~probe.done
  /\ LET c == Coupon(probe.coupon_rate)
     IN  probe' = [probe EXCEPT !.p1 = bond_price(probe.y1, c, probe.n),
                                !.p2 = bond_price(probe.y2, c, probe.n),
                                !.done = TRUE]
  /\ UNCHANGED <<batch, row, pc, price, periods, coupon, low, high, mid, iter, ytm, summary>>

Next == ReturnNaN \/ EnterLoop \/ LoopStep \/ Return \/ Metrics \/ MetricsRaises

NextPrice == Price

\* the solver on one row
Spec == InitSolve /\ [][Next]_vars

\* the solver applied to a batch
SpecBatch == InitBatch /\ [][Next]_vars

\* bond_price alone
SpecPrice == InitPrice /\ [][NextPrice]_vars
----------------------------------------------------------------------------
\* Notions the properties below are stated with.

\* price_at_yield for the schedule of quote q
BP(q, y) == bond_price(y, Coupon(q.coupon_rate), Periods(q.years))

\* the price implies a yield below 0.0001 or above 0.20
OutOfBracket(q) == FLt(BP(q, LOW0), q.price) \/ FGt(BP(q, HIGH0), q.price)

\* what a solve that succeeds is: the checks pass and the bracket holds the root
Solved(q) == ~Rejected(q) /\ ~OutOfBracket(q)

\* bond_price(0.0001) > price >= bond_price(0.20) for the call under way
EntryBracket ==
  /\ FGt(bond_price(LOW0, coupon, periods), price)
  /\ FLe(bond_price(HIGH0, coupon, periods), price)

FAbs(a) == [s |-> IF a.s = 0 THEN 0 ELSE 1, m |-> a.m, e |-> a.e]
Within(a, b, tol) == FLe(FAbs(FSub(a, b)), tol)

\* 2^k
PowTwo(k) == [s |-> 1, m |-> One.m, e |-> One.e + k]

\* (0.20 - 0.0001) / 2^k
HalvedWidth(k) == FDiv[FSub(HIGH0, LOW0), PowTwo(k)]

Percent(n, d) == FDiv[FromInt(n), FromInt(d)]

Finished == 1..Len(ytm)

----------------------------------------------------------------------------
\* C1: a call whose price implies a yield outside [0.0001, 0.20], that is
\* bond_price(0.0001) < price or bond_price(0.20) > price, returns a failure
\* and never a numeric yield.
C1_OutOfBracketFails ==
  \A i \in Finished :
    (~Rejected(batch[i]) /\ OutOfBracket(batch[i])) => ytm[i].nan

\* C2: a price <= 0 and a period count <= 0 each give their own tagged
\* failure: what the call hands back is not a NaN, and the two kinds of
\* failure can be told apart.
C2_TaggedFailures ==
  /\ \A i \in Finished : Rejected(batch[i]) => ~ytm[i].nan
  /\ \A i, j \in Finished :
       (/\ FLe(batch[i].price, Zero)
        /\ FGt(batch[j].price, Zero) /\ Periods(batch[j].years) <= 0)
       => ytm[i] # ytm[j]

\* C3: round trip.  If the price of a row is bond_price at a yield y0 of
\* [0.0001, 0.20] for the row's own schedule (period count >= 1), the solver
\* returns a number within 0.01 percentage points of y0 * 100.
C3_RoundTrip ==
  \A i \in Finished : \A y0 \in Y0Set :
    (/\ Periods(batch[i].years) >= 1
     /\ batch[i].price = BP(batch[i], y0))
    => /\ ~ytm[i].nan
       /\ Within(ytm[i].v, FMul[y0, FromInt(100)], Percent(1, 100))

\* a round trip from 5 %, an inner point of the bracket, has been solved
C3_Witness ==
  /\ pc = "done"
  /\ batch[1].price = BP(batch[1], Percent(5, 100))
  /\ ~ytm[1].nan

\* C4: the summary is computed over the rows whose solve succeeded, and with
\* no such row (all failed, or an empty batch) it reports an error.
C4_SummaryOverSolved ==
  pc = "done" =>
    LET solved == {i \in 1..Len(batch) : Solved(batch[i])}
    IN  IF solved = {} THEN summary.state = "error"
        ELSE /\ summary.state = "ok"
             /\ \E i \in solved : summary.max = ytm[i].v
             /\ \E i \in solved : summary.min = ytm[i].v
             /\ \A i \in solved : FLe(summary.min, ytm[i].v) /\ FLe(ytm[i].v, summary.max)
             /\ summary.spread = FSub(summary.max, summary.min)

StepsLeft ==
  IF pc = "done" THEN 0
  ELSE IF pc = "loop"
  THEN (LoopCount - iter) + 1 + (Len(batch) - row) * (LoopCount + 2) + 1
  ELSE (Len(batch) - row + 1) * (LoopCount + 2) + 1

\* C6: every call ends.  A call that fails the checks returns at once, no
\* iteration made; any other makes exactly 100 iterations and returns
\* mid * 100 for the last midpoint computed, which the last iteration gave
\* to low or to high.  No state short of the end is stuck, and every step
\* lowers the number of steps that can still be taken.
C6_Calls ==
  /\ pc = "apply" \/ pc = "done" \/ (pc = "loop" /\ iter <= LoopCount)
  /\ StepsLeft >= 0
  /\ (pc # "loop" /\ row > 1) =>
       IF Rejected(batch[row - 1])
       THEN ytm[row - 1] = NaN /\ iter = 0
       ELSE /\ iter = LoopCount
            /\ ytm[row - 1] = Num(FMul[mid, FromInt(100)])
            /\ mid = low \/ mid = high

C6_Terminates == []C6_Calls /\ [][StepsLeft' < StepsLeft]_vars

\* a call that ran the loop has returned
C6_Witness == pc = "done" /\ ~ytm[1].nan /\ iter = LoopCount

\* C7: bond_price is strictly decreasing in y: y1 < y2 gives
\* bond_price(y1) > bond_price(y2).
C7_StrictlyDecreasing ==
  probe.done => FGt(probe.p1, probe.p2)

\* C7 as amended: bond_price never increases with y, and decreases strictly
\* between yields at least 0.0001 apart.
C7_NonIncreasing ==
  probe.done =>
    /\ FLe(probe.p2, probe.p1)
    /\ FLe(Percent(1, 10000), FSub(probe.y2, probe.y1)) => FGt(probe.p1, probe.p2)

\* two yields, one float apart, with the same price
C7_Witness == probe.done /\ probe.y2 = NextUp(probe.y1) /\ probe.p1 = probe.p2

\* C8: at a trial yield equal to the coupon rate the price is exactly 100.
C8_ExactPar ==
  (probe.done /\ probe.y1 = probe.coupon_rate) => probe.p1 = face_value

\* C8 as amended: at a trial yield equal to the coupon rate the price is 100
\* to within 0.000000001.
C8_NearPar ==
  (probe.done /\ probe.y1 = probe.coupon_rate)
  => Within(probe.p1, face_value, Percent(1, 1000000000))

\* a par price that is not exactly 100
C8_Witness ==
  /\ probe.done /\ probe.y1 = probe.coupon_rate
  /\ probe.p1 # face_value

\* C9: if bond_price(0.0001) > price >= bond_price(0.20) at loop entry, then
\* bond_price(low) > price >= bond_price(high) in every state of the loop,
\* so that every trial yield priced above the quote is below high and every
\* one priced at or below it is above low.
C9_RootBracketed ==
  (pc = "loop" /\ EntryBracket) =>
    /\ FGt(bond_price(low, coupon, periods), price)
    /\ FLe(bond_price(high, coupon, periods), price)
    /\ \A y \in Y0Set :
         IF FGt(bond_price(y, coupon, periods), price)
         THEN FLt(y, high) ELSE FLt(low, y)

\* the loop has run to its end on a bracketed root
C9_Witness == pc = "loop" /\ iter = LoopCount /\ EntryBracket

\* C10: in the loop 0.0001 <= low < high <= 0.20 and low <= mid <= high; after
\* k iterations the width high - low is (0.20 - 0.0001) / 2^k (taken here
\* with a factor of two to spare, so that rounding alone cannot break it);
\* a numeric result lies strictly between 0.01 and 20.
C10_HalvingBracket ==
  /\ pc = "loop" =>
       /\ FLe(LOW0, low) /\ FLt(low, high) /\ FLe(high, HIGH0)
       /\ iter >= 1 => FLe(low, mid) /\ FLe(mid, high)
       /\ FLe(HalvedWidth(iter + 1), FSub(high, low))
       /\ FLe(FSub(high, low), HalvedWidth(iter - 1))
  /\ \A i \in Finished :
       ~ytm[i].nan => FLt(Percent(1, 100), ytm[i].v) /\ FLt(ytm[i].v, FromInt(20))

\* C10 as amended, the states: 0.0001 <= low <= high <= 0.20, low < high
\* while the entry bracket holds, low <= mid <= high; the width is
\* (0.20 - 0.0001) / 2^k to within a thousandth for the first 40 iterations,
\* and after the 100 iterations low and high are equal or neighbouring
\* floats; a numeric result lies between 0.01 and 20, both included.
C10_Shape ==
  /\ pc = "loop" =>
       /\ FLe(LOW0, low) /\ FLe(low, high) /\ FLe(high, HIGH0)
       /\ FLt(low, high) \/ ~EntryBracket
       /\ iter >= 1 => FLe(low, mid) /\ FLe(mid, high)
       /\ iter <= 40 => Within(FSub(high, low), HalvedWidth(iter),
                               FDiv[HalvedWidth(iter), FromInt(1000)])
       /\ iter = LoopCount => FLe(high, NextUp(low))
  /\ \A i \in Finished :
       ~ytm[i].nan => FLe(Percent(1, 100), ytm[i].v) /\ FLe(ytm[i].v, FromInt(20))

\* C10 as amended, the steps: an iteration changes at most one of low and
\* high, low never decreases, high never increases, the width never grows.
C10_Step ==
  (pc = "loop" /\ pc' = "loop") =>
    /\ low' = low \/ high' = high
    /\ FLe(low, low') /\ FLe(high', high)
    /\ FLe(FSub(high', low'), FSub(high, low))

C10_Bracket == []C10_Shape /\ [][C10_Step]_vars

\* the bracket has closed on 0.20: low = high, and the result is 20 itself
C10_Witness ==
  /\ pc = "done" /\ low = high
  /\ ytm[1] = Num(FromInt(20))
====
